---- MODULE Spec2Model ----
(***************************************************************************)
(* Three-phase quorum consensus (Propose -> Prepare -> Commit -> Decide)   *)
(* of cs_sr: the ConsensusActor of model.rs run by an actor model over an  *)
(* unordered, non-duplicating network, as set up in main.rs.               *)
(***************************************************************************)
EXTENDS Bags, FiniteSets, Integers, Sequences, TLC

VARIABLES
    actor,          \* the ConsensusActor every node runs: peers, faulty_nodes, quorum_size
    actor_states,   \* node id -> ConsensusNodeState
    network,        \* bag of in-flight envelopes [dst, msg]
    sent,           \* history: bag of [src, msg], one copy per broadcast made
    depth,          \* number of deliveries made so far
    fired,          \* number of timers fired so far
    input_history,  \* the slice of node states handed to check_agreement
    verdict         \* <<what check_agreement returned for input_history>>, once called

vars == <<actor, actor_states, network, sent, depth, fired, input_history, verdict>>

\* Bounds of the exploration.
MaxDepth == 26
MaxSteps == 6
MaxTimeouts == 1
MaxHistory == 3
MaxPairDepth == 3
MaxFirings == 2
MaxFiringSteps == 3

(***************************************************************************)
(* Value, NodeState, MessageType, ConsensusTimer                           *)
(***************************************************************************)
Value == {"V1", "V2", "V3"}

None == "None"

NodeState == {"Init", "Prepared", "Committed", "Decided", "Failed"}

Propose(v) == [type |-> "Propose", value |-> v]
Prepare(v) == [type |-> "Prepare", value |-> v]
Commit(v) == [type |-> "Commit", value |-> v]
Decide(v) == [type |-> "Decide", value |-> v]

MessageType == {[type |-> t, value |-> v] : t \in {"Propose", "Prepare", "Commit", "Decide"}, v \in Value}

ProposeValue(v) == [type |-> "ProposeValue", value |-> v]

(***************************************************************************)
(* HashMap<Value, usize>: a function whose domain is the set of keys.      *)
(***************************************************************************)
EmptyMap == [k \in {} |-> 0]

\* map.get(k).unwrap_or(&0)
MapGet(m, k) == IF k \in DOMAIN m THEN m[k] ELSE 0

\* *map.entry(k).or_insert(0) = x
MapPut(m, k, x) == [j \in (DOMAIN m) \cup {k} |-> IF j = k THEN x ELSE m[j]]

(***************************************************************************)
(* ConsensusNodeState                                                      *)
(***************************************************************************)
NewNodeState(id, quorum_size) ==
    [id |-> id,
     state |-> "Init",
     value |-> None,
     prepare_count |-> EmptyMap,
     commit_count |-> EmptyMap,
     decided |-> FALSE,
     quorum_size |-> quorum_size,
     is_faulty |-> FALSE,
     has_proposed |-> FALSE]

\* has_quorum crediting the caller's own vote once more.
has_quorum_plus_one(self, count) == count + 1 >= self.quorum_size

has_quorum(self, count) == count >= self.quorum_size

(***************************************************************************)
(* Out<ConsensusActor>: the envelopes a handler sends.  Every send of the  *)
(* actor is one message to each peer, the sender included.                 *)
(***************************************************************************)
NoOut == EmptyBag

Broadcast(peers, msg) == SetToBag({[dst |-> p, msg |-> msg] : p \in peers})

(***************************************************************************)
(* ConsensusActor::on_start                                                *)
(***************************************************************************)
\* on_start whose proposer block does not look at faulty_nodes.
on_start_proposer_unchecked(self, id) ==
    LET fresh == NewNodeState(id, self.quorum_size)
        state == IF id \in self.faulty_nodes
                 THEN [fresh EXCEPT !.is_faulty = TRUE, !.state = "Failed"]
                 ELSE fresh
    IN IF id = 0
       THEN [state |-> state,
             out |-> Broadcast(self.peers, Propose("V1"))
                     (+) Broadcast(self.peers, Propose("V2"))
                     (+) Broadcast(self.peers, Propose("V3"))]
       ELSE [state |-> state, out |-> NoOut]

\* on_start that marks a faulty node without moving it to Failed.
on_start_faulty_not_failed(self, id) ==
    LET fresh == NewNodeState(id, self.quorum_size) IN
    IF id \in self.faulty_nodes
    THEN [state |-> [fresh EXCEPT !.is_faulty = TRUE], out |-> NoOut]
    ELSE IF id = 0 /\ 0 \notin self.faulty_nodes
    THEN [state |-> fresh,
          out |-> Broadcast(self.peers, Propose("V1"))
                  (+) Broadcast(self.peers, Propose("V2"))
                  (+) Broadcast(self.peers, Propose("V3"))]
    ELSE [state |-> fresh, out |-> NoOut]

\* on_start where every node that is not faulty proposes.
on_start_every_node_proposes(self, id) ==
    LET fresh == NewNodeState(id, self.quorum_size) IN
    IF id \in self.faulty_nodes
    THEN [state |-> [fresh EXCEPT !.is_faulty = TRUE, !.state = "Failed"],
          out |-> NoOut]
    ELSE [state |-> fresh,
          out |-> Broadcast(self.peers, Propose("V1"))
                  (+) Broadcast(self.peers, Propose("V2"))
                  (+) Broadcast(self.peers, Propose("V3"))]

on_start(self, id) ==
    LET fresh == NewNodeState(id, self.quorum_size) IN
    IF id \in self.faulty_nodes
    THEN [state |-> [fresh EXCEPT !.is_faulty = TRUE, !.state = "Failed"],
          out |-> NoOut]
    ELSE IF id = 0 /\ 0 \notin self.faulty_nodes
    THEN [state |-> fresh,
          out |-> Broadcast(self.peers, Propose("V1"))
                  (+) Broadcast(self.peers, Propose("V2"))
                  (+) Broadcast(self.peers, Propose("V3"))]
    ELSE [state |-> fresh, out |-> NoOut]

(***************************************************************************)
(* ConsensusActor::on_msg, one operator per match arm                      *)
(***************************************************************************)
\* The Propose arm without the value.is_none() test.
on_propose_relatch(self, state, value) ==
    IF state.state = "Init"
    THEN [state |-> [state EXCEPT !.value = value,
                                  !.prepare_count = MapPut(@, value, 1)],
          out |-> Broadcast(self.peers, Prepare(value))]
    ELSE [state |-> state, out |-> NoOut]

on_propose(self, state, value) ==
    IF state.state = "Init" /\ state.value = None
    THEN [state |-> [state EXCEPT !.value = value,
                                  !.prepare_count = MapPut(@, value, 1)],
          out |-> Broadcast(self.peers, Prepare(value))]
    ELSE [state |-> state, out |-> NoOut]

\* The Prepare arm without the state == Init test at quorum.
on_prepare_requorum(self, state, value) ==
    IF state.value # None /\ state.value = value
    THEN LET count_value == MapGet(state.prepare_count, value) + 1
             counted == [state EXCEPT !.prepare_count = MapPut(@, value, count_value)]
         IN IF has_quorum(counted, count_value)
            THEN [state |-> [counted EXCEPT !.state = "Prepared",
                                            !.commit_count = MapPut(@, value, 1)],
                  out |-> Broadcast(self.peers, Commit(value))]
            ELSE [state |-> counted, out |-> NoOut]
    ELSE [state |-> state, out |-> NoOut]

\* The Prepare arm counting a Prepare for any value.
on_prepare_any_value(self, state, value) ==
    IF state.value # None
    THEN LET count_value == MapGet(state.prepare_count, state.value) + 1
             counted == [state EXCEPT !.prepare_count = MapPut(@, state.value, count_value)]
         IN IF has_quorum(counted, count_value) /\ counted.state = "Init"
            THEN [state |-> [counted EXCEPT !.state = "Prepared",
                                            !.commit_count = MapPut(@, state.value, 1)],
                  out |-> Broadcast(self.peers, Commit(state.value))]
            ELSE [state |-> counted, out |-> NoOut]
    ELSE [state |-> state, out |-> NoOut]

on_prepare(self, state, value) ==
    IF state.value # None /\ state.value = value
    THEN LET count_value == MapGet(state.prepare_count, value) + 1
             counted == [state EXCEPT !.prepare_count = MapPut(@, value, count_value)]
         IN IF has_quorum(counted, count_value) /\ counted.state = "Init"
            THEN [state |-> [counted EXCEPT !.state = "Prepared",
                                            !.commit_count = MapPut(@, value, 1)],
                  out |-> Broadcast(self.peers, Commit(value))]
            ELSE [state |-> counted, out |-> NoOut]
    ELSE [state |-> state, out |-> NoOut]

\* The Commit arm without the state == Prepared test.
on_commit_any_phase(self, state, value) ==
    IF state.value # None /\ state.value = value
    THEN LET count_value == MapGet(state.commit_count, value) + 1
             counted == [state EXCEPT !.commit_count = MapPut(@, value, count_value)]
         IN IF has_quorum(counted, count_value)
            THEN [state |-> [counted EXCEPT !.state = "Committed"],
                  out |-> Broadcast(self.peers, Decide(value))]
            ELSE [state |-> counted, out |-> NoOut]
    ELSE [state |-> state, out |-> NoOut]

\* on_commit counting a Commit for any value.
on_commit_any_value(self, state, value) ==
    IF state.state = "Prepared"
    THEN LET count_value == MapGet(state.commit_count, value) + 1
             counted == [state EXCEPT !.commit_count = MapPut(@, value, count_value)]
         IN IF has_quorum(counted, count_value)
            THEN [state |-> [counted EXCEPT !.state = "Committed"],
                  out |-> Broadcast(self.peers, Decide(value))]
            ELSE [state |-> counted, out |-> NoOut]
    ELSE [state |-> state, out |-> NoOut]

\* The Commit arm without the broadcast of Decide at quorum.
on_commit_no_decide(self, state, value) ==
    IF state.state = "Prepared" /\ state.value # None /\ state.value = value
    THEN LET count_value == MapGet(state.commit_count, value) + 1
             counted == [state EXCEPT !.commit_count = MapPut(@, value, count_value)]
         IN IF has_quorum(counted, count_value)
            THEN [state |-> [counted EXCEPT !.state = "Committed"], out |-> NoOut]
            ELSE [state |-> counted, out |-> NoOut]
    ELSE [state |-> state, out |-> NoOut]

on_commit(self, state, value) ==
    IF state.state = "Prepared" /\ state.value # None /\ state.value = value
    THEN LET count_value == MapGet(state.commit_count, value) + 1
             counted == [state EXCEPT !.commit_count = MapPut(@, value, count_value)]
         IN IF has_quorum(counted, count_value)
            THEN [state |-> [counted EXCEPT !.state = "Committed"],
                  out |-> Broadcast(self.peers, Decide(value))]
            ELSE [state |-> counted, out |-> NoOut]
    ELSE [state |-> state, out |-> NoOut]

\* The Decide arm setting the decided flag and leaving the phase.
on_decide_flag_only(self, state, value) ==
    IF state.value # None /\ state.value = value /\ ~state.decided
    THEN [state |-> [state EXCEPT !.decided = TRUE], out |-> NoOut]
    ELSE [state |-> state, out |-> NoOut]

on_decide(self, state, value) ==
    IF state.value # None /\ state.value = value /\ ~state.decided
    THEN [state |-> [state EXCEPT !.decided = TRUE, !.state = "Decided"],
          out |-> NoOut]
    ELSE [state |-> state, out |-> NoOut]

on_msg(self, state, msg) ==
    IF state.is_faulty
    THEN [state |-> state, out |-> NoOut]
    ELSE CASE msg.type = "Propose" -> on_propose(self, state, msg.value)
           [] msg.type = "Prepare" -> on_prepare(self, state, msg.value)
           [] msg.type = "Commit" -> on_commit(self, state, msg.value)
           [] msg.type = "Decide" -> on_decide(self, state, msg.value)

(***************************************************************************)
(* ConsensusActor::on_timeout                                              *)
(***************************************************************************)
\* on_timeout without the has_proposed test.
on_timeout_ungated(self, state, timer) ==
    IF state.is_faulty
    THEN [state |-> state, out |-> NoOut]
    ELSE IF state.state = "Init"
    THEN [state |-> [state EXCEPT !.has_proposed = TRUE],
          out |-> Broadcast(self.peers, Propose(timer.value))]
    ELSE [state |-> state, out |-> NoOut]

on_timeout(self, state, timer) ==
    IF state.is_faulty
    THEN [state |-> state, out |-> NoOut]
    ELSE IF state.state = "Init" /\ ~state.has_proposed
    THEN [state |-> [state EXCEPT !.has_proposed = TRUE],
          out |-> Broadcast(self.peers, Propose(timer.value))]
    ELSE [state |-> state, out |-> NoOut]

(***************************************************************************)
(* ConsensusModel::check_agreement, check_no_premature_decision            *)
(***************************************************************************)
RECURSIVE decided_values(_)
decided_values(history) ==
    IF history = <<>>
    THEN <<>>
    ELSE LET s == Head(history) IN
         (IF s.decided /\ ~s.is_faulty /\ s.value # None THEN <<s.value>> ELSE <<>>)
         \o decided_values(Tail(history))

check_agreement(history) ==
    LET dv == decided_values(history) IN
    IF Len(dv) > 1
    THEN \A i \in 1..Len(dv) : dv[i] = dv[1]
    ELSE TRUE

check_no_premature_decision(state) ==
    IF state.state = "Decided"
    THEN IF state.value # None
         THEN MapGet(state.commit_count, state.value) >= state.quorum_size
         ELSE FALSE
    ELSE TRUE

(***************************************************************************)
(* run_scenario: the configurations of the actor model                     *)
(***************************************************************************)
Peers(num_nodes) == 0..(num_nodes - 1)

with_faults(peers, faulty_nodes, quorum_size) ==
    [peers |-> peers, faulty_nodes |-> faulty_nodes, quorum_size |-> quorum_size]

S1 == with_faults(Peers(3), {}, 3)
S2 == with_faults(Peers(5), {}, 5)
S3 == with_faults(Peers(5), {4}, 5)
S4 == with_faults(Peers(5), {3, 4}, 3)
S6 == with_faults(Peers(3), {}, 2)

RECURSIVE BagSum(_, _)
BagSum(S, out) ==
    IF S = {} THEN EmptyBag
    ELSE LET p == CHOOSE q \in S : TRUE IN out[p] (+) BagSum(S \ {p}, out)

\* One [src, msg] per broadcast in the sends `out` of node `src`.
Broadcasts(src, out) == SetToBag({[src |-> src, msg |-> e.msg] : e \in BagToSet(out)})

\* The actor model's initial state: on_start of every actor, its sends in the network.
InitOf(a) ==
    LET started == [p \in a.peers |-> on_start(a, p)] IN
    /\ actor = a
    /\ actor_states = [p \in a.peers |-> started[p].state]
    /\ network = BagSum(a.peers, [p \in a.peers |-> started[p].out])
    /\ sent = BagSum(a.peers, [p \in a.peers |-> Broadcasts(p, started[p].out)])
    /\ depth = 0
    /\ fired = 0
    /\ input_history = << >>
    /\ verdict = << >>

(***************************************************************************)
(* Steps of the actor model over Network::new_unordered_nonduplicating     *)
(***************************************************************************)
\* A handler that leaves the state as it was and sends nothing.
is_no_op(state, r) == r.state = state /\ r.out = NoOut

\* Deliver one in-flight envelope: it leaves the network, on_msg runs at its
\* destination, and the handler's sends enter the network.
Deliver(e) ==
    /\ BagIn(e, network)
    /\ LET r == on_msg(actor, actor_states[e.dst], e.msg) IN
       /\ actor_states' = [actor_states EXCEPT ![e.dst] = r.state]
       /\ network' = (network (-) SetToBag({e})) (+) r.out
       /\ sent' = sent (+) Broadcasts(e.dst, r.out)
    /\ depth' = depth + 1
    /\ UNCHANGED <<actor, fired, input_history, verdict>>

\* Fire the timer ProposeValue(v) at node n: on_timeout runs there.  No handler
\* sets a timer, so which timer fires, and where, is an input.
Timeout(n, v) ==
    /\ n \in actor.peers
    /\ LET r == on_timeout(actor, actor_states[n], ProposeValue(v)) IN
       /\ actor_states' = [actor_states EXCEPT ![n] = r.state]
       /\ network' = network (+) r.out
       /\ sent' = sent (+) Broadcasts(n, r.out)
    /\ fired' = fired + 1
    /\ UNCHANGED <<actor, depth, input_history, verdict>>

\* Any in-flight envelope is delivered.
DeliverAny == \E e \in BagToSet(network) :
    /\ depth < MaxSteps
    /\ Deliver(e)

\* Only the deliveries that change something are steps: an envelope whose
\* handler is a no-op stays in flight.  A no-op delivery under DeliverAny only
\* takes an envelope away, so both reach the same node states.
DeliverEff == \E e \in BagToSet(network) :
    /\ depth < MaxDepth
    /\ ~is_no_op(actor_states[e.dst], on_msg(actor, actor_states[e.dst], e.msg))
    /\ Deliver(e)

TimeoutAny == \E n \in actor.peers, v \in Value :
    /\ fired < MaxTimeouts
    /\ Timeout(n, v)

\* Every configuration of n nodes: any faulty set, any quorum up to n + 1.
Configs(n) == {with_faults(Peers(n), f, q) : f \in SUBSET Peers(n), q \in 1..(n + 1)}

SmallConfigs == Configs(1) \cup Configs(2)

\* Small configurations, every delivery (no-ops included) and timers.
Init == \E a \in SmallConfigs : InitOf(a)

Next == DeliverAny \/ TimeoutAny

Spec == Init /\ [][Next]_vars

\* Scenario S6: no timer is ever set, so deliveries are the only steps.
InitS6 == InitOf(S6)

NextEff == DeliverEff

SpecS6 == InitS6 /\ [][NextEff]_vars

\* Scenarios S1 to S4.
InitScenarios == \E a \in {S1, S2, S3, S4} : InitOf(a)

NextScenarios == DeliverEff

SpecScenarios == InitScenarios /\ [][NextScenarios]_vars

\* Scenario S3 alone.
InitS3 == InitOf(S3)

NextS3 == DeliverEff

SpecS3 == InitS3 /\ [][NextS3]_vars

\* Small configurations again, with fewer deliveries and more timer firings,
\* so that a timer fires again where one has fired.
DeliverFew == \E e \in BagToSet(network) :
    /\ depth < MaxFiringSteps
    /\ Deliver(e)

TimeoutAgain == \E n \in actor.peers, v \in Value :
    /\ fired < MaxFirings
    /\ Timeout(n, v)

InitTimers == \E a \in SmallConfigs : InitOf(a)

NextTimers == DeliverFew \/ TimeoutAgain

SpecTimers == InitTimers /\ [][NextTimers]_vars

\* Small configurations with no timer and no bound on the deliveries: every
\* in-flight envelope is delivered sooner or later, and leaves the network
\* whether or not on_msg acts on it.
DeliverAll == \E e \in BagToSet(network) : Deliver(e)

InitDrain == \E a \in SmallConfigs : InitOf(a)

NextDrain == DeliverAll

SpecDrain == InitDrain /\ [][NextDrain]_vars /\ WF_vars(NextDrain)

(***************************************************************************)
(* ConsensusModel::check_agreement as a function of its argument           *)
(***************************************************************************)
\* The node states a caller can build: ConsensusNodeState::new with the public
\* fields value, decided and is_faulty assigned, as the tests do.
HistoryEntries ==
    {[NewNodeState(0, 3) EXCEPT !.value = v, !.decided = d, !.is_faulty = f] :
        v \in Value \cup {None}, d \in BOOLEAN, f \in BOOLEAN}

Histories == UNION {[1..k -> HistoryEntries] : k \in 0..MaxHistory}

InitAgreement ==
    /\ input_history \in Histories
    /\ verdict = << >>
    /\ actor = with_faults({}, {}, 3)
    /\ actor_states = << >>
    /\ network = EmptyBag
    /\ sent = EmptyBag
    /\ depth = 0
    /\ fired = 0

CallCheckAgreement ==
    /\ verdict = << >>
    /\ verdict' = <<check_agreement(input_history)>>
    /\ UNCHANGED <<actor, actor_states, network, sent, depth, fired, input_history>>

NextAgreement == CallCheckAgreement

SpecAgreement == InitAgreement /\ [][NextAgreement]_vars

(***************************************************************************)
(* Vocabulary of the properties                                            *)
(***************************************************************************)
NonFaulty == {n \in actor.peers : ~actor_states[n].is_faulty}

Faulty == {n \in actor.peers : n \in actor.faulty_nodes}

Agreement ==
    \A i, j \in NonFaulty :
        (actor_states[i].decided /\ actor_states[j].decided)
            => actor_states[i].value = actor_states[j].value

\* The nodes that have broadcast msg.
Senders(msg) == {n \in actor.peers : BagIn([src |-> n, msg |-> msg], sent)}

\* How many broadcasts of msg were made.
TimesSent(msg) ==
    LET RECURSIVE Sum(_)
        Sum(S) == IF S = {} THEN 0
                  ELSE LET n == CHOOSE m \in S : TRUE
                       IN CopiesIn([src |-> n, msg |-> msg], sent) + Sum(S \ {n})
    IN Sum(actor.peers)

\* Some copy of msg addressed to n has been delivered to it.
Consumed(n, msg) == CopiesIn([dst |-> n, msg |-> msg], network) < TimesSent(msg)

Rank(state) ==
    CASE state = "Init" -> 0
      [] state = "Prepared" -> 1
      [] state = "Committed" -> 2
      [] state = "Decided" -> 3
      [] OTHER -> -1

\* A trajectory given as the envelopes to deliver, in order, each of which
\* must be in flight and change something when its turn comes.
RECURSIVE Replay(_, _, _)
Replay(self, sys, schedule) ==
    IF schedule = <<>> \/ ~sys.ok
    THEN sys
    ELSE LET e == Head(schedule)
             r == on_msg(self, sys.actor_states[e.dst], e.msg)
         IN IF ~BagIn(e, sys.network) \/ is_no_op(sys.actor_states[e.dst], r)
            THEN [sys EXCEPT !.ok = FALSE]
            ELSE Replay(self,
                        [actor_states |-> [sys.actor_states EXCEPT ![e.dst] = r.state],
                         network |-> (sys.network (-) SetToBag({e})) (+) r.out,
                         ok |-> TRUE],
                        Tail(schedule))

RECURSIVE SortedSeq(_)
SortedSeq(S) ==
    IF S = {} THEN <<>>
    ELSE LET m == CHOOSE x \in S : \A y \in S : x <= y
         IN <<m>> \o SortedSeq(S \ {m})

RECURSIVE Flatten(_)
Flatten(ss) == IF ss = <<>> THEN <<>> ELSE Head(ss) \o Flatten(Tail(ss))

Copies(e, k) == [i \in 1..k |-> e]

\* The first nodes that are not faulty latch V1, each hears enough Prepare(V1), the
\* lowest of them hears enough Commit(V1) and then its own Decide(V1).
HappyPath(a) ==
    LET live == a.peers \ a.faulty_nodes
        d == IF a.quorum_size > 2 THEN a.quorum_size - 1 ELSE 1
        A == SortedSeq({n \in live : Cardinality({m \in live : m < n}) < d})
        To(n, msg) == [dst |-> n, msg |-> msg]
    IN [i \in 1..Len(A) |-> To(A[i], Propose("V1"))]
       \o Flatten([i \in 1..Len(A) |-> Copies(To(A[i], Prepare("V1")), d)])
       \o Copies(To(A[1], Commit("V1")), d)
       \o <<To(A[1], Decide("V1"))>>

(***************************************************************************)
(* Properties                                                              *)
(***************************************************************************)
\* C1: in scenario S6 (3 nodes, quorum 2, no faulty node) any two non-faulty
\* decided nodes hold the same accepted value.
C1_AgreementS6 == (actor = S6) => Agreement

\* C2: in scenarios S1 to S4 any two non-faulty decided nodes hold the same
\* accepted value.
C2_AgreementS1toS4 == (actor \in {S1, S2, S3, S4}) => Agreement

C2_TwoDecidedS2 ==
    /\ actor = S2
    /\ \E i, j \in NonFaulty :
        i # j /\ actor_states[i].decided /\ actor_states[j].decided

\* C3: every node whose phase is Decided has commit_count[value] >= quorum_size,
\* a missing entry counting as 0.
C3_NoPrematureDecision ==
    \A n \in actor.peers : check_no_premature_decision(actor_states[n])

\* C4: in scenario S3 (5 nodes, quorum 5, node 4 crashed) no node is ever decided.
C4_NoDecisionS3 == (actor = S3) => \A n \in actor.peers : ~actor_states[n].decided

\* C5: in each of S1, S2 and S4 there is a trajectory from the initial state to a
\* state where a non-faulty node is decided: HappyPath is one.
C5_EventualDecisionWitnessed ==
    (depth = 0 /\ actor \in {S1, S2, S4}) =>
        LET end == Replay(actor,
                          [actor_states |-> actor_states, network |-> network, ok |-> TRUE],
                          HappyPath(actor))
        IN /\ end.ok
           /\ \E n \in actor.peers :
                ~end.actor_states[n].is_faulty /\ end.actor_states[n].decided

C5_DecidedS2 == actor = S2 /\ \E n \in NonFaulty : actor_states[n].decided

\* C6: a step never changes an accepted value that is set, and a step sets it
\* only by delivering Propose(v) to a node in Init whose value is unset.
C6_ValueMonotonic ==
    [][\A n \in actor.peers :
        LET s == actor_states[n]
            t == actor_states'[n]
            e == [dst |-> n, msg |-> Propose(t.value)]
        IN /\ s.value # None => t.value = s.value
           /\ (s.value = None /\ t.value # None) =>
                /\ s.state = "Init"
                /\ BagIn(e, network)
                /\ network' = (network (-) SetToBag({e}))
                                (+) Broadcast(actor.peers, Prepare(t.value))]_vars

C6_LatchedThenProposed ==
    \E n \in NonFaulty, v \in Value :
        /\ actor_states[n].value \notin {None, v}
        /\ Consumed(n, Propose(v))

\* C7: no step (delivery or timer) moves a non-faulty node to an earlier phase
\* in the order Init < Prepared < Committed < Decided.
C7_PhaseMonotonic ==
    [][\A n \in actor.peers :
        ~actor_states[n].is_faulty =>
            Rank(actor_states'[n].state) >= Rank(actor_states[n].state)]_vars

C7_DecidedAfterTimer ==
    \E n \in NonFaulty :
        actor_states[n].state = "Decided" /\ actor_states[n].has_proposed

\* C8: a faulty node starts Failed having sent nothing (node 0 included), and no
\* delivery to it or timer on it changes its state or adds a message.
C8_FaultyInert ==
    /\ \A n \in Faulty :
        /\ actor_states[n] = [NewNodeState(n, actor.quorum_size)
                                EXCEPT !.is_faulty = TRUE, !.state = "Failed"]
        /\ \A m \in MessageType : ~BagIn([src |-> n, msg |-> m], sent)
    /\ [][\A n \in Faulty :
            /\ actor_states'[n] = actor_states[n]
            /\ \A m \in MessageType : ~BagIn([src |-> n, msg |-> m], sent')
            /\ \A m \in MessageType :
                Deliver([dst |-> n, msg |-> m]) =>
                    /\ network' = network (-) SetToBag({[dst |-> n, msg |-> m]})
                    /\ actor_states' = actor_states
            /\ \A v \in Value :
                Timeout(n, v) => (network' = network /\ actor_states' = actor_states)]_vars

C8_FaultyZeroReceived ==
    /\ 0 \in Faulty
    /\ fired > 0
    /\ \E m \in MessageType : Consumed(0, m)

\* C9: a node's phase is Failed exactly when the node is faulty.
C9_FailedIffFaulty ==
    \A n \in actor.peers :
        /\ (actor_states[n].state = "Failed") <=> actor_states[n].is_faulty
        /\ actor_states[n].is_faulty <=> (n \in actor.faulty_nodes)

C9_FaultyBesideDecided ==
    /\ Faulty # {}
    /\ \E n \in NonFaulty : actor_states[n].state = "Decided"

\* C10: prepare_count[v] at a node is at most the number of distinct nodes that
\* have broadcast Prepare(v), so a node is past Init for v only when at least
\* quorum_size distinct nodes have accepted v.
C10_PrepareTallyDistinct ==
    \A n \in NonFaulty, v \in Value :
        /\ MapGet(actor_states[n].prepare_count, v) <= Cardinality(Senders(Prepare(v)))
        /\ (actor_states[n].state \in {"Prepared", "Committed"} /\ actor_states[n].value = v)
            => Cardinality({m \in actor.peers : actor_states[m].value = v})
                    >= actor.quorum_size

\* C11: commit_count[v] at a node is at most the number of distinct nodes that
\* have broadcast Commit(v), so a node is Committed for v only when at least
\* quorum_size distinct nodes have broadcast Commit(v).
C11_CommitTallyDistinct ==
    \A n \in NonFaulty, v \in Value :
        /\ MapGet(actor_states[n].commit_count, v) <= Cardinality(Senders(Commit(v)))
        /\ (actor_states[n].state = "Committed" /\ actor_states[n].value = v)
            => Cardinality(Senders(Commit(v))) >= actor.quorum_size

\* The transition table's guard for msg is false in state.
GuardFalse(state, msg) ==
    CASE msg.type = "Propose" -> state.state # "Init" \/ state.value # None
      [] msg.type = "Prepare" -> state.value = None \/ state.value # msg.value
      [] msg.type = "Commit" -> state.state # "Prepared" \/ state.value # msg.value
      [] msg.type = "Decide" ->
            state.value = None \/ state.value # msg.value \/ state.decided

\* C12: for a non-faulty node and any message whose guard is false, on_msg
\* returns the state it was given (tallies included) and sends nothing, so
\* however often such a message is delivered the node stays as it is.
C12_NoOpWhenGuardFalse ==
    \A n \in NonFaulty, m \in MessageType :
        GuardFalse(actor_states[n], m) =>
            on_msg(actor, actor_states[n], m)
                = [state |-> actor_states[n], out |-> NoOut]

\* A node that holds a value has been delivered a Prepare for another value.
C12_ForeignPrepareDelivered ==
    \E n \in NonFaulty, v \in Value :
        /\ actor_states[n].value \notin {None, v}
        /\ Consumed(n, Prepare(v))

\* C13: at start a faulty node is Failed with is_faulty set, any other node is
\* the fresh Init state with the configured quorum, and the network holds one
\* Propose of each value for every peer when node 0 is not faulty, nothing
\* otherwise; only node 0 has sent.
C13_OnStartContract ==
    (depth = 0 /\ fired = 0) =>
        /\ \A n \in actor.peers :
            actor_states[n] =
                [id |-> n,
                 value |-> None,
                 state |-> IF n \in actor.faulty_nodes THEN "Failed" ELSE "Init",
                 prepare_count |-> << >>,
                 commit_count |-> << >>,
                 decided |-> FALSE,
                 quorum_size |-> actor.quorum_size,
                 is_faulty |-> n \in actor.faulty_nodes,
                 has_proposed |-> FALSE]
        /\ network =
            IF 0 \in actor.faulty_nodes
            THEN EmptyBag
            ELSE [e \in {[dst |-> p, msg |-> Propose(v)] : p \in actor.peers, v \in Value}
                    |-> 1]
        /\ sent =
            IF 0 \in actor.faulty_nodes
            THEN EmptyBag
            ELSE [e \in {[src |-> 0, msg |-> Propose(v)] : v \in Value} |-> 1]

\* A start with two nodes where node 0 proposes and its peer is faulty.
C13_StartedBesideFaulty ==
    /\ depth = 0
    /\ fired = 0
    /\ actor.faulty_nodes = {1}
    /\ BagIn([dst |-> 1, msg |-> Propose("V3")], network)

\* C14: check_agreement(history) is true exactly when every two entries of
\* history that are decided and not faulty have equal values, an unset value
\* being a value like any other.
C14_CheckAgreementIsAgreement ==
    verdict # << >> =>
        (verdict[1] <=>
            \A i, j \in 1..Len(input_history) :
                (/\ input_history[i].decided /\ ~input_history[i].is_faulty
                 /\ input_history[j].decided /\ ~input_history[j].is_faulty)
                    => input_history[i].value = input_history[j].value)

\* impl Hash for ConsensusNodeState: the fields that enter the hash.
Hashed(state) ==
    [id |-> state.id,
     state |-> state.state,
     value |-> state.value,
     decided |-> state.decided,
     quorum_size |-> state.quorum_size,
     is_faulty |-> state.is_faulty,
     has_proposed |-> state.has_proposed]

\* The global state after envelope e of sys is delivered.
next_state(self, sys, e) ==
    LET r == on_msg(self, sys.actor_states[e.dst], e.msg)
    IN [actor_states |-> [sys.actor_states EXCEPT ![e.dst] = r.state],
        network |-> (sys.network (-) SetToBag({e})) (+) r.out]

\* The global states within k deliveries of a state of S.
RECURSIVE Within(_, _, _)
Within(self, S, k) ==
    IF k = 0
    THEN S
    ELSE S \cup Within(self,
                       UNION {{next_state(self, sys, e) : e \in BagToSet(sys.network)} :
                                sys \in S},
                       k - 1)

\* C15: two global states reachable from the same start that agree on every
\* node's hashed fields and on the network also agree on every node's
\* prepare_count and commit_count.
C15_HashConflationHarmless ==
    (depth = 0 /\ fired = 0) =>
        LET R == Within(actor,
                        {[actor_states |-> actor_states, network |-> network]},
                        MaxPairDepth)
        IN \A a, b \in R :
            (/\ a.network = b.network
             /\ \A n \in actor.peers :
                    Hashed(a.actor_states[n]) = Hashed(b.actor_states[n]))
                => \A n \in actor.peers :
                    /\ a.actor_states[n].prepare_count = b.actor_states[n].prepare_count
                    /\ a.actor_states[n].commit_count = b.actor_states[n].commit_count

\* C16: every step that changes the phase of a non-faulty node moves it to the
\* next phase of Init -> Prepared -> Committed -> Decided, so none takes a node
\* from Init or Prepared straight to Decided.
C16_LinearProgression ==
    [][\A n \in actor.peers :
        (~actor_states[n].is_faulty /\ actor_states'[n].state # actor_states[n].state)
            => Rank(actor_states'[n].state) = Rank(actor_states[n].state) + 1]_vars

\* C17: at every node decided is true exactly when the phase is Decided, and
\* no delivery or timer changes the phase or the decided flag of a Decided node.
C17_DecidedIffDecidedPhase ==
    /\ [](\A n \in actor.peers :
            actor_states[n].decided <=> (actor_states[n].state = "Decided"))
    /\ [][\A n \in actor.peers :
            actor_states[n].state = "Decided" =>
                /\ actor_states'[n].state = "Decided"
                /\ actor_states'[n].decided]_vars

\* A node that decided from Init and then counted a quorum of Prepare: the
\* Prepare that completed the quorum reached it when it was already Decided.
C17_PrepareQuorumAfterDecided ==
    \E n \in NonFaulty :
        /\ actor_states[n].state = "Decided"
        /\ actor_states[n].commit_count = EmptyMap
        /\ MapGet(actor_states[n].prepare_count, actor_states[n].value)
                >= actor_states[n].quorum_size
        /\ MapGet(actor_states[n].prepare_count, actor_states[n].value) >= 2

\* The broadcasts of a Propose that node n has made.
ProposalsBy(n) ==
    CopiesIn([src |-> n, msg |-> Propose("V1")], sent)
    + CopiesIn([src |-> n, msg |-> Propose("V2")], sent)
    + CopiesIn([src |-> n, msg |-> Propose("V3")], sent)

\* C18: ProposeValue(v) firing at a non-faulty node in Init that has not
\* proposed sets has_proposed, changes nothing else and adds one Propose(v) for
\* each peer; fired anywhere else it changes and sends nothing.  So beyond the
\* three proposals node 0 makes at start, a node broadcasts at most one.
C18_TimerProposalGate ==
    /\ [](\A n \in actor.peers :
            ProposalsBy(n) <= (IF n = 0 /\ 0 \notin actor.faulty_nodes THEN 3 ELSE 0) + 1)
    /\ [][\A n \in actor.peers, v \in Value :
            Timeout(n, v) =>
                IF /\ ~actor_states[n].is_faulty
                   /\ actor_states[n].state = "Init"
                   /\ ~actor_states[n].has_proposed
                THEN /\ actor_states' = [actor_states EXCEPT ![n].has_proposed = TRUE]
                     /\ network' = network
                            (+) [e \in {[dst |-> p, msg |-> Propose(v)] : p \in actor.peers}
                                    |-> 1]
                ELSE /\ actor_states' = actor_states
                     /\ network' = network]_vars

\* A lone node still in Init after two firings: one of them found has_proposed set.
C18_FiredTwiceInInit ==
    /\ actor.peers = {0}
    /\ fired = 2
    /\ actor_states[0].state = "Init"
    /\ actor_states[0].has_proposed
    /\ ProposalsBy(0) = 4

\* C19: when quorum_size exceeds the number of nodes, every non-faulty node
\* stays in Init, no Commit or Decide is ever sent and no node decides.
C19_ImpossibleQuorumBlocks ==
    actor.quorum_size > Cardinality(actor.peers) =>
        /\ \A n \in NonFaulty : actor_states[n].state = "Init"
        /\ \A n \in actor.peers : ~actor_states[n].decided
        /\ \A v \in Value : Senders(Commit(v)) = {} /\ Senders(Decide(v)) = {}

\* The broadcasts node n has made of the message kind built by Kind.
BroadcastsOf(n, Kind(_)) ==
    CopiesIn([src |-> n, msg |-> Kind("V1")], sent)
    + CopiesIn([src |-> n, msg |-> Kind("V2")], sent)
    + CopiesIn([src |-> n, msg |-> Kind("V3")], sent)

\* 3N + 3N*N for the N nodes of the configuration.
TrafficBound == 3 * Cardinality(actor.peers) * (1 + Cardinality(actor.peers))

\* C20: with no timer, each node broadcasts Prepare, Commit and Decide at most
\* once each, every broadcast is one envelope per peer, at most 3N + 3N*N
\* envelopes are ever sent, and after at most that many deliveries the network
\* is empty, which every trajectory reaches.
C20_BoundedTrafficAndTermination ==
    /\ [](\A n \in actor.peers :
            /\ BroadcastsOf(n, Prepare) <= 1
            /\ BroadcastsOf(n, Commit) <= 1
            /\ BroadcastsOf(n, Decide) <= 1)
    /\ [](/\ depth + BagCardinality(network)
                = Cardinality(actor.peers) * BagCardinality(sent)
          /\ Cardinality(actor.peers) * BagCardinality(sent) <= TrafficBound
          /\ depth <= TrafficBound)
    /\ <>[](network = EmptyBag /\ ~ENABLED NextDrain)

\* Two nodes that sent everything they can, all of it delivered.
C20_AllTrafficDelivered ==
    /\ Cardinality(actor.peers) = 2
    /\ depth = TrafficBound
    /\ network = EmptyBag

\* The global state after the envelopes of schedule are delivered in order,
\* each of which must be in flight when its turn comes.
RECURSIVE Run(_, _, _)
Run(self, sys, schedule) ==
    IF schedule = <<>>
    THEN [actor_states |-> sys.actor_states, network |-> sys.network, ok |-> TRUE]
    ELSE IF ~BagIn(Head(schedule), sys.network)
    THEN [actor_states |-> sys.actor_states, network |-> sys.network, ok |-> FALSE]
    ELSE Run(self, next_state(self, sys, Head(schedule)), Tail(schedule))

\* Deliveries continued, one in-flight envelope after another, until none is left.
RECURSIVE Drain(_, _)
Drain(self, sys) ==
    IF sys.network = EmptyBag
    THEN sys
    ELSE Drain(self, next_state(self, sys, CHOOSE e \in BagToSet(sys.network) : TRUE))

\* Each of the three nodes is delivered the proposal of a different value first.
SplitPath ==
    <<[dst |-> 0, msg |-> Propose("V1")],
      [dst |-> 1, msg |-> Propose("V2")],
      [dst |-> 2, msg |-> Propose("V3")]>>

\* C21: in scenario S1 (3 nodes, quorum 3, no faulty node) there is a trajectory
\* from the initial state on which the nodes latch different values and every
\* envelope is delivered, ending with an empty network, every node still in
\* Init and none decided: a decision is not reached on every trajectory.
C21_QuiescentUndecidedReachable ==
    (depth = 0 /\ actor = S1) =>
        LET split == Run(actor,
                         [actor_states |-> actor_states, network |-> network],
                         SplitPath)
            end == Drain(actor, [actor_states |-> split.actor_states,
                                 network |-> split.network])
        IN /\ split.ok
           /\ end.network = EmptyBag
           /\ \A n \in actor.peers :
                /\ ~end.actor_states[n].is_faulty
                /\ ~end.actor_states[n].decided
                /\ end.actor_states[n].state = "Init"
           /\ \A n, m \in actor.peers :
                n # m => end.actor_states[n].value # end.actor_states[m].value

\* S1 with three different values latched, nobody decided, and no in-flight
\* envelope that any node would act on.
C21_SplitAndStuckS1 ==
    /\ actor = S1
    /\ \A n \in actor.peers : actor_states[n].value # None /\ ~actor_states[n].decided
    /\ \A n, m \in actor.peers :
        n # m => actor_states[n].value # actor_states[m].value
    /\ \A e \in BagToSet(network) :
        is_no_op(actor_states[e.dst], on_msg(actor, actor_states[e.dst], e.msg))

====
